---- MODULE Spec2Model ----
(***************************************************************************)
(* Model of the path classifier of db_ingester.py: FileSubtype.check_path  *)
(* and the PathMatch automaton (check_path, check_name, check_directories  *)
(* and its token handlers).                                                *)
(*                                                                         *)
(* Strings are sequences of one-character strings, so that splitting the   *)
(* directories rule on "/", classifying a token and the prefix-anchored    *)
(* re.match are computed as the code computes them.  The rules are drawn   *)
(* from metacharacter-free strings, for which re.match(p, s) is "s starts  *)
(* with p".  A candidate path is the collaborator's object: its base name  *)
(* and the sequence of ancestor directory names, root to parent, that      *)
(* iterating path.parent.absolute() yields.                                *)
(***************************************************************************)
EXTENDS Integers, Sequences, FiniteSets, TLC

(* ------------------------------ bounds --------------------------------- *)
MaxTokens == 3
MaxDirs == 3
ReuseMaxTokens == 2
ReuseMaxDirs == 2
MaxCalls == 2
ConcMaxTokens == 2
ConcMaxDirs == 1

(* ------------------------------ strings -------------------------------- *)
None == <<"None">>

SEP == <<"/">>

ROOT == <<"!", "R", "O", "O", "T", "!">>

DIRS == <<"!", "D", "I", "R", "S", "!">>

DIRS_N_PREFIX == <<"!", "D", "I", "R", "S", "_">>

DIRS_2 == DIRS_N_PREFIX \o <<"2", "!">>

DIRS_0 == DIRS_N_PREFIX \o <<"0", "!">>

DIRS_MISSING == DIRS_N_PREFIX \o <<"!">>

NameTokens == {<<"a">>, <<"a", "b">>}

TokenSet == {ROOT, DIRS, DIRS_2, DIRS_0, DIRS_MISSING} \cup NameTokens

DirNames == {<<"a">>, <<"a", "b">>}

NameRules == {<<>>, <<"r">>}

FileNames == {<<"r", "1">>, <<"o">>}

SeqsUpTo(S, n) == UNION {[1..k -> S] : k \in 0..n}

RECURSIVE Reverse(_)
Reverse(s) == IF s = <<>> THEN <<>> ELSE Append(Reverse(Tail(s)), Head(s))

RECURSIVE Join(_)
Join(toks) ==
    IF Len(toks) = 1 THEN toks[1]
    ELSE toks[1] \o SEP \o Join(Tail(toks))

HasSep(s) == \E i \in 1..Len(s) : s[i] = "/"

FirstSep(s) == CHOOSE i \in 1..Len(s) : s[i] = "/" /\ \A j \in 1..(i-1) : s[j] # "/"

RECURSIVE Split(_)
Split(s) ==
    IF ~HasSep(s) THEN <<s>>
    ELSE <<SubSeq(s, 1, FirstSep(s) - 1)>> \o Split(SubSeq(s, FirstSep(s) + 1, Len(s)))

(* re.match(pattern, string) for a metacharacter-free pattern *)
re_match(pattern, string) ==
    /\ Len(pattern) <= Len(string)
    /\ SubSeq(string, 1, Len(pattern)) = pattern

Digits == {"0", "1", "2", "3", "4", "5", "6", "7", "8", "9"}

DigitVal(c) ==
    CASE c = "0" -> 0 [] c = "1" -> 1 [] c = "2" -> 2 [] c = "3" -> 3
      [] c = "4" -> 4 [] c = "5" -> 5 [] c = "6" -> 6 [] c = "7" -> 7
      [] c = "8" -> 8 [] c = "9" -> 9

RECURSIVE int(_)
int(ds) ==
    IF ds = <<>> THEN 0
    ELSE 10 * int(SubSeq(ds, 1, Len(ds) - 1)) + DigitVal(ds[Len(ds)])

(* length of the run of digits of s that starts at position i *)
RECURSIVE DigitRun(_, _)
DigitRun(s, i) ==
    IF i <= Len(s) /\ s[i] \in Digits THEN 1 + DigitRun(s, i + 1) ELSE 0

(* re.match(r'!DIRS_(?P<number>\d+)!', pattern): the number, or -1 *)
match_dirs_n(pattern) ==
    LET k == DigitRun(pattern, 7) IN
    IF /\ Len(pattern) >= 6
       /\ SubSeq(pattern, 1, 6) = DIRS_N_PREFIX
       /\ k >= 1
       /\ 7 + k <= Len(pattern)
       /\ pattern[7 + k] = "!"
    THEN int(SubSeq(pattern, 7, 6 + k))
    ELSE -1

(* ------------------------------- state --------------------------------- *)
VARIABLES
    rules_dict,     \* the rule specification handed to FileSubtype / PathMatch
    same_object,    \* whether a token equal to a literal of the module is the
                    \* same object as it (left to the Python implementation)
    pm,             \* the PathMatch instances, one per caller
    call            \* each caller's position in check_path

vars == <<rules_dict, same_object, pm, call>>

(* next(iterator, None): the value produced and the iterator afterwards *)
next_value(it) == IF it = <<>> THEN None ELSE Head(it)

next_rest(it) == IF it = <<>> THEN <<>> ELSE Tail(it)

(* x is 'literal' *)
IsLiteral(x, literal) == x = literal /\ same_object

PathMatch__init__ ==
    [patterns |-> None, path_parts |-> None, pattern |-> None, part |-> None,
     match_state |-> "undetermined", variable_skip |-> FALSE]

check_name(rules, path) ==
    /\ rules.has_name
    /\ rules.name # <<>>
    /\ re_match(rules.name, path.name)

prepare_path_patterns(path_pattern_string) == Reverse(Split(path_pattern_string))

prepare_path_parts(path) == Reverse(path.dirs)

initialize_check_dirs_loop(s, rules, path) ==
    LET patterns == prepare_path_patterns(rules.directories)
        path_parts == prepare_path_parts(path)
    IN [s EXCEPT !.patterns = next_rest(patterns),
                 !.path_parts = next_rest(path_parts),
                 !.pattern = next_value(patterns),
                 !.part = next_value(path_parts)]

get_rule_type(pattern) ==
    LET first == IF IsLiteral(pattern, ROOT) THEN "root" ELSE "unset"
        number == match_dirs_n(pattern)
        second == IF IsLiteral(pattern, DIRS) THEN [rule_type |-> "skip_variable", rule_data |-> -1]
                  ELSE IF number >= 0 THEN [rule_type |-> "skip_fixed", rule_data |-> number]
                  ELSE [rule_type |-> "dir_name", rule_data |-> -1]
    IN  \* the second if/else assigns rule_type on both branches, whatever
        \* the first if assigned
        second

eval_rule_root(s) ==
    IF next_value(s.path_parts) = None
    THEN [s EXCEPT !.match_state = "succeeded"]
    ELSE IF s.variable_skip
    THEN [s EXCEPT !.path_parts = next_rest(s.path_parts), !.match_state = "succeeded"]
    ELSE [s EXCEPT !.path_parts = next_rest(s.path_parts), !.match_state = "failed"]

RECURSIVE drop(_, _)
drop(it, n) == IF n <= 0 THEN it ELSE drop(next_rest(it), n - 1)

eval_rule_skip_fixed(s, skip_number) ==
    LET skipped == drop(s.path_parts, skip_number - 1) IN
    [s EXCEPT !.match_state = IF s.part = None THEN "failed" ELSE s.match_state,
              !.part = next_value(skipped),
              !.path_parts = next_rest(skipped),
              !.pattern = next_value(s.patterns),
              !.patterns = next_rest(s.patterns)]

eval_rule_skip_variable(s) ==
    [s EXCEPT !.pattern = next_value(s.patterns),
              !.patterns = next_rest(s.patterns),
              !.variable_skip = TRUE]

(* re.match(self.pattern, self.part) raises TypeError when part is None *)
eval_rule_dir_name_raises(s) == s.part = None

(* eval_rule_dir_name without self.variable_skip = False after a match *)
eval_rule_dir_name_keep_skip(s) ==
    IF re_match(s.pattern, s.part)
    THEN [s EXCEPT !.pattern = next_value(s.patterns),
                   !.patterns = next_rest(s.patterns),
                   !.part = next_value(s.path_parts),
                   !.path_parts = next_rest(s.path_parts)]
    ELSE IF s.variable_skip
    THEN [s EXCEPT !.part = next_value(s.path_parts),
                   !.path_parts = next_rest(s.path_parts)]
    ELSE [s EXCEPT !.match_state = "failed"]

(* eval_rule_dir_name that puts the matched part back in front of          *)
(* path_parts for the next token                                           *)
eval_rule_dir_name_put_back(s) ==
    IF re_match(s.pattern, s.part)
    THEN [s EXCEPT !.pattern = next_value(s.patterns),
                   !.patterns = next_rest(s.patterns),
                   !.path_parts = <<s.part>> \o s.path_parts,
                   !.variable_skip = FALSE]
    ELSE IF s.variable_skip
    THEN [s EXCEPT !.part = next_value(s.path_parts),
                   !.path_parts = next_rest(s.path_parts)]
    ELSE [s EXCEPT !.match_state = "failed"]

eval_rule_dir_name(s) ==
    IF re_match(s.pattern, s.part)
    THEN [s EXCEPT !.pattern = next_value(s.patterns),
                   !.patterns = next_rest(s.patterns),
                   !.part = next_value(s.path_parts),
                   !.path_parts = next_rest(s.path_parts),
                   !.variable_skip = FALSE]
    ELSE IF s.variable_skip
    THEN [s EXCEPT !.part = next_value(s.path_parts),
                   !.path_parts = next_rest(s.path_parts)]
    ELSE [s EXCEPT !.match_state = "failed"]

(* validate_pattern_part that tests self.part before self.pattern *)
validate_pattern_part_part_first(s) ==
    IF s.part = None THEN [s EXCEPT !.match_state = "failed"]
    ELSE IF s.pattern = None THEN [s EXCEPT !.match_state = "succeeded"]
    ELSE s

validate_pattern_part(s) ==
    IF s.pattern = None THEN [s EXCEPT !.match_state = "succeeded"]
    ELSE IF s.part = None THEN [s EXCEPT !.match_state = "failed"]
    ELSE s

(* one iteration of the while loop of check_directories *)
loop_raises(s) ==
    /\ get_rule_type(s.pattern).rule_type = "dir_name"
    /\ eval_rule_dir_name_raises(s)

eval_rule(s) ==
    LET rule == get_rule_type(s.pattern) IN
    CASE rule.rule_type = "root" -> eval_rule_root(s)
      [] rule.rule_type = "skip_fixed" -> eval_rule_skip_fixed(s, rule.rule_data)
      [] rule.rule_type = "skip_variable" -> eval_rule_skip_variable(s)
      [] rule.rule_type = "dir_name" -> eval_rule_dir_name(s)

loop_body(s) == validate_pattern_part(eval_rule(s))

(* check_directories_begin without self.match_state = 'undetermined' *)
check_directories_begin_stale(s, rules, path) ==
    IF rules.has_directories
    THEN [initialize_check_dirs_loop(s, rules, path) EXCEPT !.variable_skip = FALSE]
    ELSE [s EXCEPT !.match_state = "failed"]

(* the prologue of check_directories *)
check_directories_begin(s, rules, path) ==
    IF rules.has_directories
    THEN [initialize_check_dirs_loop(s, rules, path)
            EXCEPT !.match_state = "undetermined", !.variable_skip = FALSE]
    ELSE [s EXCEPT !.match_state = "failed"]

(* check_directories run to its end on instance state s: "succeeded",      *)
(* "failed", or "raised" when an iteration raises                          *)
RECURSIVE run_loop(_)
run_loop(s) ==
    IF s.match_state # "undetermined" THEN s.match_state
    ELSE IF loop_raises(s) THEN "raised"
    ELSE run_loop(loop_body(s))

check_directories(s, rules, path) ==
    IF rules.has_directories THEN run_loop(check_directories_begin(s, rules, path))
    ELSE "failed"

(* ------------------------------ inputs --------------------------------- *)
RuleSpecs(maxTokens) ==
    {[has_name |-> hn, name |-> n, has_directories |-> hd, directories |-> d] :
        hn \in {TRUE}, n \in NameRules, hd \in {TRUE},
        d \in {Join(t) : t \in SeqsUpTo(TokenSet, maxTokens) \ {<<>>}}}
    \cup
    {[has_name |-> FALSE, name |-> <<>>, has_directories |-> TRUE, directories |-> d] :
        d \in {Join(t) : t \in SeqsUpTo(TokenSet, maxTokens) \ {<<>>}}}
    \cup
    {[has_name |-> hn, name |-> n, has_directories |-> FALSE, directories |-> <<>>] :
        hn \in BOOLEAN, n \in NameRules}

Paths(maxDirs) ==
    {[name |-> n, dirs |-> d] : n \in FileNames, d \in SeqsUpTo(DirNames, maxDirs)}

(* ------------------------------ actions -------------------------------- *)
(* one PathMatch kept by the FileSubtype and used by every call *)
path_match_shared(c) == 1

(* FileSubtype.check_path: path_match = PathMatch(self.file_id_rules) is an *)
(* object of the call's own                                                *)
path_match(c) == c

NoPath == [name |-> <<>>, dirs |-> <<>>]

InitWith(callers, maxTokens) ==
    /\ rules_dict \in RuleSpecs(maxTokens)
    /\ same_object \in BOOLEAN
    /\ pm = [c \in callers |-> PathMatch__init__]
    /\ call = [c \in callers |->
                 [pc |-> "idle", path |-> NoPath, self |-> c, name_match |-> FALSE,
                  result |-> FALSE, iters |-> 0, calls |-> 0, overlapped |-> FALSE]]

(* PathMatch.check_path up to the while loop, on instance i *)
check_path_begin(c, i, s, path) ==
    LET started == check_directories_begin(s, rules_dict, path)
        name_match == check_name(rules_dict, path)
    IN
    /\ pm' = [pm EXCEPT ![i] = started]
    /\ call' = [call EXCEPT ![c] =
                  [pc |-> IF rules_dict.has_directories THEN "loop" ELSE "done",
                   path |-> path, self |-> i, name_match |-> name_match,
                   result |-> FALSE, iters |-> 0, calls |-> call[c].calls + 1,
                   overlapped |-> FALSE]]
    /\ UNCHANGED <<rules_dict, same_object>>

FileSubtype_check_path(c, path) ==
    /\ call[c].pc = "idle"
    /\ check_path_begin(c, path_match(c), PathMatch__init__, path)

PathMatch_check_path(c, path) ==
    /\ call[c].pc # "loop"
    /\ call[c].calls < MaxCalls
    /\ check_path_begin(c, call[c].self, pm[call[c].self], path)

(* history only: another caller is inside its loop while c takes a step *)
OtherRunning(c) == \E d \in DOMAIN call \ {c} : call[d].pc = "loop" /\ call[d].iters >= 1

LoopIteration(c) ==
    LET i == call[c].self IN
    /\ call[c].pc = "loop"
    /\ pm[i].match_state = "undetermined"
    /\ IF loop_raises(pm[i])
       THEN /\ call' = [call EXCEPT ![c].pc = "raised"]
            /\ UNCHANGED pm
       ELSE /\ pm' = [pm EXCEPT ![i] = loop_body(pm[i])]
            /\ call' = [call EXCEPT ![c].iters = @ + 1,
                                    ![c].overlapped = @ \/ OtherRunning(c)]
    /\ UNCHANGED <<rules_dict, same_object>>

(* Return with "name_match or dirs_match" *)
Return_or(c) ==
    LET i == call[c].self IN
    /\ call[c].pc = "loop"
    /\ pm[i].match_state # "undetermined"
    /\ call' = [call EXCEPT ![c].pc = "done",
                            ![c].result = call[c].name_match \/ (pm[i].match_state = "succeeded")]
    /\ UNCHANGED <<rules_dict, same_object, pm>>

(* the end of check_directories and the return of check_path *)
Return(c) ==
    LET i == call[c].self IN
    /\ call[c].pc = "loop"
    /\ pm[i].match_state # "undetermined"
    /\ call' = [call EXCEPT ![c].pc = "done",
                            ![c].result = call[c].name_match /\ (pm[i].match_state = "succeeded")]
    /\ UNCHANGED <<rules_dict, same_object, pm>>

(* one call of FileSubtype.check_path *)
Init == InitWith({1}, MaxTokens)

Next ==
    \/ \E p \in Paths(MaxDirs) : FileSubtype_check_path(1, p)
    \/ LoopIteration(1)
    \/ Return(1)

Spec == Init /\ [][Next]_vars

(* repeated calls of PathMatch.check_path on one instance *)
InitReuse == InitWith({1}, ReuseMaxTokens)

NextReuse ==
    \/ \E p \in Paths(ReuseMaxDirs) : PathMatch_check_path(1, p)
    \/ LoopIteration(1)
    \/ Return(1)

SpecReuse == InitReuse /\ [][NextReuse]_vars

(* two calls of FileSubtype.check_path on the same rule, interleaved *)
InitConc == InitWith({1, 2}, ConcMaxTokens)

NextConc ==
    \E c \in {1, 2} :
        \/ \E p \in Paths(ConcMaxDirs) : FileSubtype_check_path(c, p)
        \/ LoopIteration(c)
        \/ Return(c)

SpecConc == InitConc /\ [][NextConc]_vars

TypeOK ==
    /\ same_object \in BOOLEAN
    /\ \A c \in DOMAIN call : call[c].pc \in {"idle", "loop", "done", "raised"}
    /\ \A i \in DOMAIN pm : pm[i].match_state \in {"undetermined", "succeeded", "failed"}

(* ------------------------- properties: helpers ------------------------- *)
Callers == DOMAIN call

Ended(c) == call[c].pc \in {"done", "raised"}

(* the directories rule as written, root to parent *)
Tokens == Split(rules_dict.directories)

IsNames(toks) == \A i \in 1..Len(toks) : toks[i] \in NameTokens

(* the tokens match the innermost Len(toks) directories one for one *)
InnerMatch(toks, dirs) ==
    /\ Len(dirs) >= Len(toks)
    /\ \A i \in 1..Len(toks) : re_match(toks[i], dirs[Len(dirs) - Len(toks) + i])

(* what check_directories returned to the caller *)
dirs_match(c) == pm[call[c].self].match_state = "succeeded"

(* what a call yields: "true", "false", or "raised" *)
Outcome(c) ==
    IF call[c].pc = "raised" THEN "raised"
    ELSE IF call[c].result THEN "true" ELSE "false"

(* what one call on a freshly built PathMatch yields *)
FreshOutcome(path) ==
    LET d == check_directories(PathMatch__init__, rules_dict, path) IN
    IF d = "raised" THEN "raised"
    ELSE IF check_name(rules_dict, path) /\ d = "succeeded" THEN "true" ELSE "false"

(* ------------------------------- claims -------------------------------- *)

C2_FailClosed ==
    \A c \in Callers :
        (~rules_dict.has_directories \/ ~rules_dict.has_name) /\ call[c].pc # "idle"
            => (call[c].pc # "raised" /\ ~call[c].result)

(* C3: the rule !ROOT!/d1/../dk matches exactly the paths whose ancestor   *)
(* directories are k components matching d1..dk one for one.              *)
C3_RootRule ==
    \A c \in Callers :
        (/\ call[c].pc = "done"
         /\ rules_dict.has_directories
         /\ Len(Tokens) >= 2
         /\ Tokens[1] = ROOT
         /\ IsNames(Tail(Tokens)))
        => (dirs_match(c) <=>
               (/\ Len(call[c].path.dirs) = Len(Tokens) - 1
                /\ InnerMatch(Tail(Tokens), call[c].path.dirs)))

(* C4: the rule !DIRS!/d1/../dk matches whenever d1..dk match the          *)
(* innermost k components, for any number of components outward of them.   *)
C4_SkipVariableRule ==
    \A c \in Callers :
        (/\ call[c].pc = "done"
         /\ rules_dict.has_directories
         /\ Len(Tokens) >= 2
         /\ Tokens[1] = DIRS
         /\ IsNames(Tail(Tokens))
         /\ InnerMatch(Tail(Tokens), call[c].path.dirs))
        => dirs_match(c)

(* C5: the rule !DIRS_N!/d1/../dk matches exactly the paths with N         *)
(* components outward of the k components that match d1..dk.               *)
C5_SkipFixedRule ==
    \A c \in Callers :
        (/\ call[c].pc = "done"
         /\ rules_dict.has_directories
         /\ Len(Tokens) >= 2
         /\ match_dirs_n(Tokens[1]) >= 1
         /\ IsNames(Tail(Tokens)))
        => (dirs_match(c) <=>
               (/\ Len(call[c].path.dirs) = match_dirs_n(Tokens[1]) + Len(Tokens) - 1
                /\ InnerMatch(Tail(Tokens), call[c].path.dirs)))

(* C6: no step of the automaton raises an error: no directory-name token   *)
(* is matched against an exhausted component cursor.                       *)
C6_NoError == \A c \in Callers : call[c].pc # "raised"

(* C7: the loop of check_directories ends in Succeeded or Failed, after at *)
(* most (number of tokens + number of path components) iterations.         *)
C7_Terminates ==
    \A c \in Callers :
        /\ (Ended(c) /\ rules_dict.has_directories)
              => pm[call[c].self].match_state \in {"succeeded", "failed"}
        /\ call[c].iters <= Len(Tokens) + Len(call[c].path.dirs)

(* C8: two interleaved FileSubtype.check_path calls on the same rule with  *)
(* different paths each yield what the call yields when run alone.         *)
C8_Isolation ==
    \A c \in Callers : \A d \in Callers \ {c} :
        (Ended(c) /\ call[d].pc # "idle" /\ call[c].path # call[d].path)
            => Outcome(c) = FreshOutcome(call[c].path)

(* both calls took steps while the other was inside its loop, and they     *)
(* returned different verdicts for their different paths                   *)
C8_Witness ==
    /\ call[1].pc = "done" /\ call[2].pc = "done"
    /\ call[1].overlapped /\ call[2].overlapped
    /\ call[1].path # call[2].path
    /\ call[1].result /\ ~call[2].result

(* C9: a PathMatch that has been used for earlier calls yields, for every  *)
(* path, what a freshly built one yields, and enters the loop in the state *)
(* a freshly built one enters it.                                          *)
C9_NoHiddenState ==
    \A c \in Callers :
        /\ Ended(c) => Outcome(c) = FreshOutcome(call[c].path)
        /\ (call[c].pc = "loop" /\ call[c].iters = 0)
              => pm[call[c].self] =
                    check_directories_begin(PathMatch__init__, rules_dict, call[c].path)

(* a second call on the same instance has returned true *)
C9_Witness ==
    /\ call[1].calls = 2
    /\ call[1].pc = "done"
    /\ call[1].result

(* C10: when the current token is !ROOT!, the step ends the match:         *)
(* Succeeded if the component cursor is exhausted or variable_skip is      *)
(* true, Failed otherwise.                                                 *)
C10_RootStep ==
    [][\A c \in Callers :
          (/\ call[c].pc = "loop"
           /\ pm[call[c].self].match_state = "undetermined"
           /\ pm[call[c].self].pattern = ROOT)
          => pm'[call[c].self].match_state =
                IF pm[call[c].self].part = None \/ pm[call[c].self].variable_skip
                THEN "succeeded" ELSE "failed"]_vars

(* ------------------- properties of one loop iteration ------------------ *)
(* caller c is about to run a loop iteration *)
AtIteration(c) ==
    /\ call[c].pc = "loop"
    /\ pm[call[c].self].match_state = "undetermined"

(* the step is a loop iteration of c that ran to its end *)
Iterated(c) == AtIteration(c) /\ call'[c].iters = call[c].iters + 1

(* what is left of a cursor: its current element and what follows *)
Remaining(current, iterator) ==
    IF current = None THEN <<>> ELSE <<current>> \o iterator

IsSuffix(a, b) ==
    /\ Len(a) <= Len(b)
    /\ a = SubSeq(b, Len(b) - Len(a) + 1, Len(b))

(* C11: a SkipFixed(n) token evaluated on an exhausted component cursor    *)
(* makes the match fail, whether or not further tokens follow.             *)
C11_SkipFixedExhausted ==
    [][\A c \in Callers :
          (/\ Iterated(c)
           /\ get_rule_type(pm[call[c].self].pattern).rule_type = "skip_fixed"
           /\ pm[call[c].self].part = None)
          => pm'[call[c].self].match_state = "failed"]_vars

(* C12: a directory-name token evaluated on a current component: on a      *)
(* match both cursors advance by one and variable_skip becomes false; on   *)
(* no match with variable_skip only the component cursor advances, token   *)
(* cursor and variable_skip unchanged; on no match without variable_skip   *)
(* the match state becomes Failed.                                         *)
C12_DirNameStep ==
    [][\A c \in Callers :
          LET s == pm[call[c].self]
              t == pm'[call[c].self]
          IN
          (/\ Iterated(c)
           /\ get_rule_type(s.pattern).rule_type = "dir_name"
           /\ s.part # None)
          => IF re_match(s.pattern, s.part)
             THEN /\ t.pattern = next_value(s.patterns)
                  /\ t.patterns = next_rest(s.patterns)
                  /\ t.part = next_value(s.path_parts)
                  /\ t.path_parts = next_rest(s.path_parts)
                  /\ t.variable_skip = FALSE
             ELSE IF s.variable_skip
             THEN /\ t.part = next_value(s.path_parts)
                  /\ t.path_parts = next_rest(s.path_parts)
                  /\ t.pattern = s.pattern
                  /\ t.patterns = s.patterns
                  /\ t.variable_skip = TRUE
             ELSE t.match_state = "failed"]_vars

(* rule name/!DIRS!: !DIRS! was evaluated, then the name absorbed one      *)
(* component that it does not match, and the match is still undetermined   *)
C12_Witness ==
    /\ rules_dict.has_directories
    /\ Len(Tokens) = 2
    /\ Tokens[1] \in NameTokens
    /\ Tokens[2] = DIRS
    /\ AtIteration(1)
    /\ call[1].iters = 2
    /\ pm[1].variable_skip
    /\ ~re_match(Tokens[1], call[1].path.dirs[Len(call[1].path.dirs)])

(* C13: evaluating a !DIRS! token advances the token cursor by one, sets   *)
(* variable_skip, and leaves the component cursor unchanged.               *)
C13_SkipVariableStep ==
    [][\A c \in Callers :
          LET s == pm[call[c].self]
              t == pm'[call[c].self]
          IN
          (AtIteration(c) /\ s.pattern = DIRS /\ call'[c] # call[c])
          => /\ t.pattern = next_value(s.patterns)
             /\ t.patterns = next_rest(s.patterns)
             /\ t.variable_skip = TRUE
             /\ t.part = s.part
             /\ t.path_parts = s.path_parts]_vars

(* C14: after the token handler: token cursor exhausted gives Succeeded,   *)
(* also when the component cursor is exhausted too; otherwise component    *)
(* cursor exhausted gives Failed; otherwise the handler's state stays.     *)
C14_TerminationCheck ==
    [][\A c \in Callers :
          LET s == pm[call[c].self]
              t == pm'[call[c].self]
          IN
          Iterated(c)
          => t.match_state =
                IF t.pattern = None THEN "succeeded"
                ELSE IF t.part = None THEN "failed"
                ELSE eval_rule(s).match_state]_vars

(* the match succeeded with both cursors exhausted *)
C14_Witness ==
    /\ call[1].pc = "done"
    /\ call[1].iters >= 1
    /\ pm[1].pattern = None
    /\ pm[1].part = None
    /\ pm[1].match_state = "succeeded"

(* C15: get_rule_type classifies "!ROOT!" as root and "!DIRS!" as          *)
(* skip_variable, never as a directory name.                               *)
C15_Classification ==
    \A c \in Callers :
        AtIteration(c) =>
            /\ pm[call[c].self].pattern = ROOT
                  => get_rule_type(pm[call[c].self].pattern).rule_type = "root"
            /\ pm[call[c].self].pattern = DIRS
                  => get_rule_type(pm[call[c].self].pattern).rule_type = "skip_variable"

(* C16: a token classified skip_fixed carries a count of at least 1; a     *)
(* !DIRS_<N>! token with suffix zero or missing is a directory name.       *)
C16_SkipFixedCount ==
    \A c \in Callers :
        AtIteration(c) =>
            /\ get_rule_type(pm[call[c].self].pattern).rule_type = "skip_fixed"
                  => get_rule_type(pm[call[c].self].pattern).rule_data >= 1
            /\ pm[call[c].self].pattern \in {DIRS_0, DIRS_MISSING}
                  => get_rule_type(pm[call[c].self].pattern).rule_type = "dir_name"

(* the rule with its outermost token removed *)
WithoutFirstToken == [rules_dict EXCEPT !.directories = Join(Tail(Tokens))]

C18_SinglePass ==
    [][\A c \in Callers :
          LET s == pm[call[c].self]
              t == pm'[call[c].self]
          IN
          (AtIteration(c) /\ call'[c].pc = "loop")
          => /\ IsSuffix(Remaining(t.pattern, t.patterns), Remaining(s.pattern, s.patterns))
             /\ IsSuffix(Remaining(t.part, t.path_parts), Remaining(s.part, s.path_parts))]_vars

(* two iterations have run, a directory name has matched and advanced      *)
(* both cursors, and tokens and components remain                          *)
C18_Witness ==
    /\ AtIteration(1)
    /\ call[1].iters >= 2
    /\ Len(Remaining(pm[1].pattern, pm[1].patterns)) <= Len(Tokens) - 2
    /\ Len(Remaining(pm[1].part, pm[1].path_parts)) <= Len(call[1].path.dirs) - 2

(* C19: a terminal state set by a token handler is not changed by the      *)
(* termination check of the same iteration.                                *)
C19_TerminalAbsorbing ==
    [][\A c \in Callers :
          (Iterated(c) /\ eval_rule(pm[call[c].self]).match_state # "undetermined")
          => pm'[call[c].self].match_state = eval_rule(pm[call[c].self]).match_state]_vars
====
